---- MODULE Spec2Model ----
\* CommonTokenStream (package antlr): a buffered, channel-aware token stream
\* that loads tokens on demand from a TokenSource.
\*
\* Go slices are 0-based, TLA+ sequences 1-based: At(s, i) is c.tokens[i].
\* A Go panic is modelled as an error result; fields assigned before the panic
\* keep their new values, fields assigned after it keep their old ones.
EXTENDS Integers, Sequences, FiniteSets, TLC

VARIABLES tokenSource, tokens, index, fetchedEOF, channel, op, arg, ret, err

vars == <<tokenSource, tokens, index, fetchedEOF, channel, op, arg, ret, err>>

\* ---------------------------------------------------------------- bounds
MaxLen == 2          \* tokens a source emits before its end-of-stream token
MaxRebindLen == 1    \* the same, for a source bound by SetTokenSource
MaxArg == 3          \* largest index / lookahead distance passed to an operation

\* ------------------------------------------------------------- constants
TokenEOF == -1
LexerDefaultTokenChannel == 0
FillBatch == 1000

Channels == {0, 1}

NoErr == "none"
ErrConsumeEOF == "cannot consume EOF"
ErrIndexRange == "index out of range"
ErrNotIn == "not in 0..n"
ErrNilDeref == "nil dereference"

\* ------------------------------------------------------------ tokens
\* The token kinds a source emits; SetTokenIndex has not been called yet.
Kinds ==
  { [type |-> 1, channel |-> 0, text |-> "a", tokenIndex |-> -1],
    [type |-> 2, channel |-> 1, text |-> "b", tokenIndex |-> -1] }

EOFToken(ch) ==
  [type |-> TokenEOF, channel |-> ch, text |-> "<EOF>", tokenIndex |-> -1]

\* The absent token (Go nil).
Nil == [type |-> -2, channel |-> -1, text |-> "", tokenIndex |-> -1]

RECURSIVE SeqsUpTo(_, _)
SeqsUpTo(S, n) ==
  IF n = 0 THEN { <<>> }
  ELSE LET shorter == SeqsUpTo(S, n - 1)
       IN  shorter \cup { Append(q, x) : q \in { r \in shorter : Len(r) = n - 1 }, x \in S }

\* A source: the tokens it emits, the channel of its end-of-stream token, and
\* the number of NextToken calls made on it so far.
Sources(n) ==
  { [input |-> q, eofChannel |-> e, pos |-> 0] : q \in SeqsUpTo(Kinds, n), e \in Channels }

\* tokenSource.NextToken(): the next token of the input, then the
\* end-of-stream token forever.
NextToken(src) ==
  IF src.pos < Len(src.input) THEN src.input[src.pos + 1] ELSE EOFToken(src.eofChannel)

\* ------------------------------------------------------------ the stream
Self ==
  [tokenSource |-> tokenSource, tokens |-> tokens, index |-> index,
   fetchedEOF |-> fetchedEOF, channel |-> channel]

NewCommonTokenStream(lexer, ch) ==
  [tokenSource |-> lexer, tokens |-> <<>>, index |-> -1,
   fetchedEOF |-> FALSE, channel |-> ch]

Size(s) == Len(s.tokens)

At(s, i) == s.tokens[i + 1]

InRange(s, i) == 0 <= i /\ i < Len(s.tokens)

\* The outcome of a call: the stream afterwards, the value returned, the panic.
Out(s, r, e) == [s |-> s, r |-> r, err |-> e]

\* Sequencing: a panic in o ends the caller, otherwise the caller goes on with o.
Then(o, F(_)) == IF o.err # NoErr THEN o ELSE F(o)

\* The read c.tokens[i], which panics outside the slice.
TokenAt(s, i) ==
  IF InRange(s, i) THEN Out(s, At(s, i), NoErr) ELSE Out(s, Nil, ErrIndexRange)

\* fetch's loop with SetTokenIndex given the length after the append.
RECURSIVE fetchLoopIndexAfter(_, _, _)
fetchLoopIndexAfter(s, i, n) ==
  IF i >= n THEN Out(s, n, NoErr)
  ELSE LET t  == [NextToken(s.tokenSource) EXCEPT !.tokenIndex = Len(s.tokens) + 1]
           s1 == [s EXCEPT !.tokenSource.pos = @ + 1, !.tokens = Append(@, t)]
       IN  IF t.type = TokenEOF
           THEN Out([s1 EXCEPT !.fetchedEOF = TRUE], i + 1, NoErr)
           ELSE fetchLoopIndexAfter(s1, i + 1, n)

\* fetch(n): the loop from iteration i on.
RECURSIVE fetchLoop(_, _, _)
fetchLoop(s, i, n) ==
  IF i >= n THEN Out(s, n, NoErr)
  ELSE LET t  == [NextToken(s.tokenSource) EXCEPT !.tokenIndex = Len(s.tokens)]
           s1 == [s EXCEPT !.tokenSource.pos = @ + 1, !.tokens = Append(@, t)]
       IN  IF t.type = TokenEOF
           THEN Out([s1 EXCEPT !.fetchedEOF = TRUE], i + 1, NoErr)
           ELSE fetchLoop(s1, i + 1, n)

\* fetch without the fetchedEOF guard.
fetchNoGuard(s, n) == fetchLoop(s, 0, n)

fetch(s, n) ==
  IF s.fetchedEOF THEN Out(s, 0, NoErr) ELSE fetchLoop(s, 0, n)

\* Sync's n: how many more elements are needed for index i.
Shortfall(s, i) == i - Len(s.tokens) + 1

Sync(s, i) ==
  IF Shortfall(s, i) > 0
  THEN Then(fetch(s, Shortfall(s, i)),
            LAMBDA f : Out(f.s, f.r >= Shortfall(s, i), NoErr))
  ELSE Out(s, TRUE, NoErr)

\* NextTokenOnChannel's loop that accepts the token at i whatever its channel.
nextLoopNoSkip(s, i) == Out(s, i, NoErr)

\* NextTokenOnChannel: the loop, entered with token = c.tokens[i] in range.
\* The comparison is against c.channel, not against the channel argument.
RECURSIVE nextLoop(_, _)
nextLoop(s, i) ==
  IF At(s, i).channel = s.channel THEN Out(s, i, NoErr)
  ELSE IF At(s, i).type = TokenEOF THEN Out(s, -1, NoErr)
  ELSE Then(Sync(s, i + 1),
            LAMBDA sy : IF InRange(sy.s, i + 1) THEN nextLoop(sy.s, i + 1)
                        ELSE Out(sy.s, -1, ErrIndexRange))

NextTokenOnChannel(s, i, ch) ==
  Then(Sync(s, i),
       LAMBDA sy : IF i >= Len(sy.s.tokens) THEN Out(sy.s, -1, NoErr)
                   ELSE IF i < 0 THEN Out(sy.s, -1, ErrIndexRange)
                   ELSE nextLoop(sy.s, i))

adjustSeekIndex(s, i) == NextTokenOnChannel(s, i, s.channel)

\* The assignment c.index = o.r.
SetIndex(o) == Out([o.s EXCEPT !.index = o.r], TRUE, NoErr)

setup(s) ==
  Then(Sync(s, 0), LAMBDA sy : Then(adjustSeekIndex(sy.s, 0), SetIndex))

lazyInit(s) ==
  IF s.index = -1 THEN setup(s) ELSE Out(s, TRUE, NoErr)

Seek(s, i) ==
  Then(lazyInit(s), LAMBDA li : Then(adjustSeekIndex(li.s, i), SetIndex))

Get(s, i) == Then(lazyInit(s), LAMBDA li : TokenAt(li.s, i))

\* previousTokenOnChannel reads the buffer only; it compares against its
\* channel argument.
RECURSIVE previousTokenOnChannel(_, _, _)
previousTokenOnChannel(s, i, ch) ==
  IF i < 0 THEN Out(s, i, NoErr)
  ELSE IF ~InRange(s, i) THEN Out(s, i, ErrIndexRange)
  ELSE IF At(s, i).channel # ch THEN previousTokenOnChannel(s, i - 1, ch)
  ELSE Out(s, i, NoErr)

\* LB: the loop "for n <= k".
RECURSIVE lbLoop(_, _, _, _)
lbLoop(s, i, n, k) ==
  IF n > k THEN Out(s, i, NoErr)
  ELSE Then(previousTokenOnChannel(s, i - 1, s.channel),
            LAMBDA p : lbLoop(s, p.r, n + 1, k))

\* LB with the guard "c.index-k <= 0".
LBGuardOffByOne(s, k) ==
  IF k = 0 \/ s.index - k <= 0 THEN Out(s, Nil, NoErr)
  ELSE Then(lbLoop(s, s.index, 1, k),
            LAMBDA w : IF w.r < 0 THEN Out(s, Nil, NoErr) ELSE TokenAt(s, w.r))

LB(s, k) ==
  IF k = 0 \/ s.index - k < 0 THEN Out(s, Nil, NoErr)
  ELSE Then(lbLoop(s, s.index, 1, k),
            LAMBDA w : IF w.r < 0 THEN Out(s, Nil, NoErr) ELSE TokenAt(s, w.r))

\* LT's loop run as "for n <= k".
RECURSIVE ltLoopOneMore(_, _, _, _)
ltLoopOneMore(s, i, n, k) ==
  IF n > k THEN Out(s, i, NoErr)
  ELSE Then(Sync(s, i + 1),
            LAMBDA sy :
              IF sy.r
              THEN Then(NextTokenOnChannel(sy.s, i + 1, sy.s.channel),
                        LAMBDA nx : ltLoopOneMore(nx.s, nx.r, n + 1, k))
              ELSE ltLoopOneMore(sy.s, i, n + 1, k))

\* LT: the loop "for n < k".
RECURSIVE ltLoop(_, _, _, _)
ltLoop(s, i, n, k) ==
  IF n >= k THEN Out(s, i, NoErr)
  ELSE Then(Sync(s, i + 1),
            LAMBDA sy :
              IF sy.r
              THEN Then(NextTokenOnChannel(sy.s, i + 1, sy.s.channel),
                        LAMBDA nx : ltLoop(nx.s, nx.r, n + 1, k))
              ELSE ltLoop(sy.s, i, n + 1, k))

LT(s, k) ==
  Then(lazyInit(s),
       LAMBDA li :
         IF k = 0 THEN Out(li.s, Nil, NoErr)
         ELSE IF k < 0 THEN LB(li.s, -k)
         ELSE Then(ltLoop(li.s, li.s.index, 1, k), LAMBDA w : TokenAt(w.s, w.r)))

\* LA(i) = LT(i).GetTokenType(); a nil token has no type to read.
LA(s, i) ==
  Then(LT(s, i),
       LAMBDA t : IF t.r = Nil THEN Out(t.s, 0, ErrNilDeref)
                  ELSE Out(t.s, t.r.type, NoErr))

\* SkipEofCheck that forgets the buffered end-of-stream token.
SkipEofCheckNoEOF(s) ==
  IF s.index >= 0 THEN s.index < Len(s.tokens) ELSE FALSE

SkipEofCheck(s) ==
  IF s.index >= 0
  THEN IF s.fetchedEOF THEN s.index < Len(s.tokens) - 1 ELSE s.index < Len(s.tokens)
  ELSE FALSE

\* Consume that steps the cursor by one instead of calling adjustSeekIndex.
AdvanceByOne(s) ==
  Then(Sync(s, s.index + 1),
       LAMBDA sy : IF sy.r THEN Out([sy.s EXCEPT !.index = @ + 1], TRUE, NoErr)
                   ELSE Out(sy.s, FALSE, NoErr))

\* Consume from the call of Sync on.
Advance(s) ==
  Then(Sync(s, s.index + 1),
       LAMBDA sy : IF sy.r THEN Then(adjustSeekIndex(sy.s, sy.s.index + 1), SetIndex)
                   ELSE Out(sy.s, FALSE, NoErr))

Consume(s) ==
  IF SkipEofCheck(s) THEN Advance(s)
  ELSE Then(LA(s, 1),
            LAMBDA la : IF la.r = TokenEOF THEN Out(la.s, FALSE, ErrConsumeEOF)
                        ELSE Advance(la.s))

\* Fill: the loop "for c.fetch(1000) == 1000".
RECURSIVE fillLoop(_)
fillLoop(s) ==
  Then(fetch(s, FillBatch),
       LAMBDA f : IF f.r = FillBatch THEN fillLoop(f.s) ELSE Out(f.s, TRUE, NoErr))

Fill(s) == Then(lazyInit(s), LAMBDA li : fillLoop(li.s))

\* GetTextFromInterval: the loop "for i := start; i < stop+1; i++".
RECURSIVE textLoop(_, _, _, _)
textLoop(s, i, stop, acc) ==
  IF i >= stop + 1 THEN Out(s, acc, NoErr)
  ELSE IF ~InRange(s, i) THEN Out(s, acc, ErrIndexRange)
  ELSE IF At(s, i).type = TokenEOF THEN Out(s, acc, NoErr)
  ELSE textLoop(s, i + 1, stop, acc \o At(s, i).text)

\* "if stop >= len(c.tokens) { stop = len(c.tokens) - 1 }"
ClampStop(s, stop) ==
  IF stop >= Len(s.tokens) THEN Len(s.tokens) - 1 ELSE stop

\* GetTextFromInterval from the reading of the interval on.
textOf(s, start, stop) ==
  IF start < 0 \/ stop < 0 THEN Out(s, "", NoErr)
  ELSE textLoop(s, start, ClampStop(s, stop), "")

\* GetTextFromInterval with a non-nil interval (start, stop).
GetTextFromInterval(s, start, stop) ==
  Then(lazyInit(s),
       LAMBDA li : Then(Fill(li.s), LAMBDA f : textOf(f.s, start, stop)))

\* GetAllText: GetTextFromInterval(nil), the interval (0, len-1) taken after Fill.
GetAllText(s) ==
  Then(lazyInit(s),
       LAMBDA li : Then(Fill(li.s), LAMBDA f : textOf(f.s, 0, Len(f.s.tokens) - 1)))

\* filterForChannel's loop run as "for i := left; i < right; i++".
RECURSIVE filterLoopExclusive(_, _, _, _, _)
filterLoopExclusive(s, i, right, ch, hidden) ==
  IF i >= right THEN Out(s, hidden, NoErr)
  ELSE IF ~InRange(s, i) THEN Out(s, hidden, ErrIndexRange)
  ELSE IF (IF ch = -1 THEN At(s, i).channel # LexerDefaultTokenChannel
           ELSE At(s, i).channel = ch)
       THEN filterLoopExclusive(s, i + 1, right, ch, Append(hidden, At(s, i)))
       ELSE filterLoopExclusive(s, i + 1, right, ch, hidden)

\* filterForChannel: the loop "for i := left; i < right+1; i++".
RECURSIVE filterLoop(_, _, _, _, _)
filterLoop(s, i, right, ch, hidden) ==
  IF i >= right + 1 THEN Out(s, hidden, NoErr)
  ELSE IF ~InRange(s, i) THEN Out(s, hidden, ErrIndexRange)
  ELSE IF (IF ch = -1 THEN At(s, i).channel # LexerDefaultTokenChannel
           ELSE At(s, i).channel = ch)
       THEN filterLoop(s, i + 1, right, ch, Append(hidden, At(s, i)))
       ELSE filterLoop(s, i + 1, right, ch, hidden)

\* A nil slice and an empty one are both the empty sequence.
filterForChannel(s, left, right, ch) == filterLoop(s, left, right, ch, <<>>)

getHiddenTokensToRight(s, tokenIndex, ch) ==
  Then(lazyInit(s),
       LAMBDA li :
         IF tokenIndex < 0 \/ tokenIndex >= Len(li.s.tokens)
         THEN Out(li.s, <<>>, ErrNotIn)
         ELSE Then(NextTokenOnChannel(li.s, tokenIndex + 1, LexerDefaultTokenChannel),
                   LAMBDA nx :
                     filterForChannel(nx.s, tokenIndex + 1,
                                      IF nx.r = -1 THEN Len(nx.s.tokens) - 1 ELSE nx.r,
                                      ch)))

\* getHiddenTokensToLeft with the guard "tokenIndex <= 0".
getHiddenTokensToLeftNoZero(s, tokenIndex, ch) ==
  Then(lazyInit(s),
       LAMBDA li :
         IF tokenIndex <= 0 \/ tokenIndex >= Len(li.s.tokens)
         THEN Out(li.s, <<>>, ErrNotIn)
         ELSE Then(previousTokenOnChannel(li.s, tokenIndex - 1, LexerDefaultTokenChannel),
                   LAMBDA pv :
                     IF pv.r = tokenIndex - 1 THEN Out(li.s, <<>>, NoErr)
                     ELSE filterForChannel(li.s, pv.r + 1, tokenIndex - 1, ch)))

getHiddenTokensToLeft(s, tokenIndex, ch) ==
  Then(lazyInit(s),
       LAMBDA li :
         IF tokenIndex < 0 \/ tokenIndex >= Len(li.s.tokens)
         THEN Out(li.s, <<>>, ErrNotIn)
         ELSE Then(previousTokenOnChannel(li.s, tokenIndex - 1, LexerDefaultTokenChannel),
                   LAMBDA pv :
                     IF pv.r = tokenIndex - 1 THEN Out(li.s, <<>>, NoErr)
                     ELSE filterForChannel(li.s, pv.r + 1, tokenIndex - 1, ch)))

\* The type sets GetTokens is called with: types.nil is Go's nil *IntervalSet.
NilTypes == [nil |-> TRUE, set |-> {}]
TypeSet(S) == [nil |-> FALSE, set |-> S]

\* GetTokens: the loop "for i := start; i < stop; i++".
RECURSIVE getTokensLoop(_, _, _, _, _)
getTokensLoop(s, i, stop, types, subset) ==
  IF i >= stop THEN Out(s, subset, NoErr)
  ELSE IF ~InRange(s, i) THEN Out(s, subset, ErrIndexRange)
  ELSE IF At(s, i).type = TokenEOF THEN Out(s, subset, NoErr)
  ELSE IF types.nil \/ At(s, i).type \in types.set
       THEN getTokensLoop(s, i + 1, stop, types, Append(subset, At(s, i)))
       ELSE getTokensLoop(s, i + 1, stop, types, subset)

GetTokens(s, start, stop, types) ==
  IF start < 0 \/ stop < 0 THEN Out(s, <<>>, NoErr)
  ELSE Then(lazyInit(s),
            LAMBDA li : getTokensLoop(li.s, start, ClampStop(li.s, stop), types, <<>>))

\* SetTokenSource without the cursor reset.
SetTokenSourceKeepIndex(s, src) ==
  Out([s EXCEPT !.tokenSource = src, !.tokens = <<>>], TRUE, NoErr)

SetTokenSource(s, src) ==
  Out([s EXCEPT !.tokenSource = src, !.tokens = <<>>, !.index = -1], TRUE, NoErr)

\* ------------------------------------------------------------ actions
\* The arguments the operations are called with.
Indexes == -1 .. MaxArg
Intervals == { <<a, b>> : a \in Indexes, b \in Indexes }
LookAheads == -2 .. MaxArg
ChannelArgs == {-1, 0, 1}

\* What the last call returned: a token, a number, a text or a token list.
NoRet == [tok |-> Nil, n |-> 0, text |-> "", list |-> <<>>]
RetNone(r) == NoRet
RetTok(r) == [NoRet EXCEPT !.tok = r]
RetInt(r) == [NoRet EXCEPT !.n = r]
RetBool(r) == [NoRet EXCEPT !.n = IF r THEN 1 ELSE 0]
RetText(r) == [NoRet EXCEPT !.text = r]
RetList(r) == [NoRet EXCEPT !.list = r]

\* The call `name(a)` with outcome o: the stream's fields afterwards, and the
\* call, its result and its panic as the caller sees them.
Commit(o, name, a, Ret(_)) ==
  /\ tokenSource' = o.s.tokenSource
  /\ tokens' = o.s.tokens
  /\ index' = o.s.index
  /\ fetchedEOF' = o.s.fetchedEOF
  /\ channel' = o.s.channel
  /\ op' = name
  /\ arg' = a
  /\ ret' = IF o.err = NoErr THEN Ret(o.r) ELSE NoRet
  /\ err' = o.err

Init ==
  /\ \E src \in Sources(MaxLen), ch \in Channels :
       /\ tokenSource = src
       /\ tokens = NewCommonTokenStream(src, ch).tokens
       /\ index = NewCommonTokenStream(src, ch).index
       /\ fetchedEOF = NewCommonTokenStream(src, ch).fetchedEOF
       /\ channel = ch
  /\ op = "New"
  /\ arg = <<>>
  /\ ret = NoRet
  /\ err = NoErr

DoSeek == \E i \in Indexes : Commit(Seek(Self, i), "Seek", <<i>>, RetNone)

DoGet == \E i \in Indexes : Commit(Get(Self, i), "Get", <<i>>, RetTok)

DoConsume == Commit(Consume(Self), "Consume", <<>>, RetNone)

DoLT == \E k \in LookAheads : Commit(LT(Self, k), "LT", <<k>>, RetTok)

DoLB == \E k \in 0 .. MaxArg : Commit(LB(Self, k), "LB", <<k>>, RetTok)

DoSync == \E i \in 0 .. MaxArg : Commit(Sync(Self, i), "Sync", <<i>>, RetBool)

DoFetch == \E n \in 0 .. MaxArg : Commit(fetch(Self, n), "fetch", <<n>>, RetInt)

DoFill == Commit(Fill(Self), "Fill", <<>>, RetNone)

DoGetTextFromInterval ==
  \E iv \in Intervals :
    Commit(GetTextFromInterval(Self, iv[1], iv[2]), "GetTextFromInterval", iv, RetText)

DoGetAllText == Commit(GetAllText(Self), "GetAllText", <<>>, RetText)

DoGetHiddenTokensToRight ==
  \E i \in Indexes, ch \in ChannelArgs :
    Commit(getHiddenTokensToRight(Self, i, ch), "getHiddenTokensToRight", <<i, ch>>, RetList)

DoGetHiddenTokensToLeft ==
  \E i \in Indexes, ch \in ChannelArgs :
    Commit(getHiddenTokensToLeft(Self, i, ch), "getHiddenTokensToLeft", <<i, ch>>, RetList)

DoGetTokens ==
  \E iv \in Intervals, ty \in {0, 1} :
    Commit(GetTokens(Self, iv[1], iv[2], IF ty = 0 THEN NilTypes ELSE TypeSet({ty})),
           "GetTokens", <<iv[1], iv[2], ty>>, RetList)

DoSetTokenSource ==
  \E src \in Sources(MaxRebindLen) :
    Commit(SetTokenSource(Self, src), "SetTokenSource", <<>>, RetNone)

\* Every operation but the rebinding of the source.
NextNav ==
  \/ DoSeek
  \/ DoGet
  \/ DoConsume
  \/ DoLT
  \/ DoLB
  \/ DoSync
  \/ DoFetch
  \/ DoFill
  \/ DoGetTextFromInterval
  \/ DoGetAllText
  \/ DoGetHiddenTokensToRight
  \/ DoGetHiddenTokensToLeft
  \/ DoGetTokens

Next == NextNav \/ DoSetTokenSource

Spec == Init /\ [][Next]_vars

\* The stream without rebinding: navigation and queries only.
SpecNav == Init /\ [][NextNav]_vars

\* A source with two hidden tokens between two default-channel tokens:
\* channels [default, hidden, hidden, default, EOF on the default channel].
HiddenSource ==
  LET d == CHOOSE k \in Kinds : k.channel = LexerDefaultTokenChannel
      h == CHOOSE k \in Kinds : k.channel # LexerDefaultTokenChannel
  IN  [input |-> <<d, h, h, d>>, eofChannel |-> LexerDefaultTokenChannel, pos |-> 0]

\* A stream constructed on the default channel, over any of the sources or
\* over HiddenSource.
InitDefault ==
  /\ \E src \in Sources(MaxLen) \cup {HiddenSource} :
       /\ tokenSource = src
       /\ tokens = NewCommonTokenStream(src, LexerDefaultTokenChannel).tokens
       /\ index = NewCommonTokenStream(src, LexerDefaultTokenChannel).index
       /\ fetchedEOF = NewCommonTokenStream(src, LexerDefaultTokenChannel).fetchedEOF
       /\ channel = LexerDefaultTokenChannel
  /\ op = "New"
  /\ arg = <<>>
  /\ ret = NoRet
  /\ err = NoErr

SpecDefault == InitDefault /\ [][Next]_vars

\* A consumer's loop over a freshly constructed stream: observe LT(1), then
\* Consume(), until a call panics.
DrainLT ==
  /\ op \in {"New", "Consume"} /\ err = NoErr
  /\ Commit(LT(Self, 1), "LT", <<1>>, RetTok)

DrainConsume ==
  /\ op = "LT" /\ err = NoErr
  /\ DoConsume

NextDrain == DrainLT \/ DrainConsume

SpecDrain == Init /\ [][NextDrain]_vars

\* ------------------------------------------------------------ properties
\* The whole token sequence of a source, end-of-stream token included, as the
\* buffer would hold it.
FullInput(src) ==
  [j \in 1 .. Len(src.input) + 1 |->
     [(IF j <= Len(src.input) THEN src.input[j] ELSE EOFToken(src.eofChannel))
        EXCEPT !.tokenIndex = j - 1]]

IsPrefix(p, q) == Len(p) <= Len(q) /\ \A j \in 1 .. Len(p) : p[j] = q[j]

EOFOnChannel == tokenSource.eofChannel = channel

\* C1: the buffer holds the end-of-stream token at most once, and only as its
\* last element.
C1_EOFOnlyLast ==
  \A j \in 1 .. Len(tokens) : tokens[j].type = TokenEOF => j = Len(tokens)

\* A fetch that asked for tokens after the end-of-stream token was buffered.
C1_Witness ==
  /\ op = "fetch" /\ arg[1] > 0 /\ ret.n = 0
  /\ Len(tokens) >= 2
  /\ tokens[Len(tokens)].type = TokenEOF

\* C2: every buffered token carries its own position as tokenIndex, and every
\* operation other than SetTokenSource keeps the buffer as a prefix of the
\* buffer afterwards.
C2_IndexStable ==
  /\ [](\A j \in 1 .. Len(tokens) : tokens[j].tokenIndex = j - 1)
  /\ [][op' # "SetTokenSource" => IsPrefix(tokens, tokens')]_vars

\* A Consume that grew a non-empty buffer.
C2_Witness ==
  /\ op = "Consume" /\ err = NoErr
  /\ Len(tokens) = 3 /\ index = 2
  /\ \A j \in 1 .. 3 : tokens[j].tokenIndex = j - 1

\* C3: the cursor is -1 or the position of a buffered token on the stream's
\* channel.
C3_CursorOnChannel ==
  \/ index = -1
  \/ /\ 0 <= index /\ index < Len(tokens)
     /\ tokens[index + 1].channel = channel

\* A Seek(0) on an input whose first token is off-channel, snapped forward to
\* the end-of-stream token at 1.
C3_Witness ==
  /\ op = "Seek" /\ arg = <<0>> /\ err = NoErr
  /\ index = 1 /\ Len(tokens) = 2
  /\ tokenSource.pos = 2 /\ Len(tokenSource.input) = 1
  /\ tokens[1].channel # channel

\* ---- what the bound source's input says the answers are
Full == FullInput(tokenSource)

\* The positions of the input, end-of-stream token included, from i on.
From(i) == { j \in 0 .. Len(Full) - 1 : j >= i }

OnChannelAt(j) == Full[j + 1].channel = channel

\* The first position >= i whose token is on the stream's channel, or -1.
FirstOnChannelFrom(i) ==
  IF \E j \in From(i) : OnChannelAt(j)
  THEN CHOOSE j \in From(i) :
         OnChannelAt(j) /\ \A m \in From(i) : m < j => ~OnChannelAt(m)
  ELSE -1

\* C4: after Seek(i), i >= 0, Index() is the smallest j >= i whose token (the
\* end-of-stream token included) is on the stream's channel, and -1 only if
\* there is none.
C4_SeekSnapsForward ==
  (op = "Seek" /\ arg[1] >= 0) =>
    (err = NoErr /\ index = FirstOnChannelFrom(arg[1]))

\* C5: Consume signals "cannot consume EOF" exactly when the token LT(1) returns
\* is the end-of-stream token, be the cursor at that token already or the
\* stream uninitialised with the end marker as its first on-channel token.
C5_ConsumeEOFIsError ==
  LET lt == LT(Self, 1)
      c  == Consume(Self)
  IN  /\ (lt.err = NoErr /\ lt.r.type = TokenEOF) => c.err = ErrConsumeEOF
      /\ (lt.err = NoErr /\ lt.r.type # TokenEOF) => c.err # ErrConsumeEOF
      /\ (index >= 0 /\ tokens[index + 1].type = TokenEOF) => c.err = ErrConsumeEOF
      /\ (index = -1 /\ FirstOnChannelFrom(0) = Len(Full) - 1) => c.err = ErrConsumeEOF
      /\ c.err = ErrConsumeEOF => (lt.err = NoErr /\ lt.r.type = TokenEOF)

\* A Consume refused at the end-of-stream token after the cursor got there.
C5_Witness ==
  /\ op = "Consume" /\ err = ErrConsumeEOF
  /\ index = 1 /\ Len(tokens) = 2
  /\ tokens[2].type = TokenEOF
  /\ tokens[1].channel = channel

\* C6: with the end-of-stream token on the stream's channel, a Consume that
\* succeeds from cursor p >= 0 moves the cursor to the first on-channel
\* position after p.
C6_ConsumeAdvances ==
  (index >= 0 /\ EOFOnChannel) =>
    LET c == Consume(Self)
    IN  c.err = NoErr =>
          /\ c.s.index > index
          /\ c.s.index = FirstOnChannelFrom(index + 1)
          /\ At(c.s, c.s.index).channel = channel
          /\ \A m \in index + 1 .. c.s.index - 1 : At(c.s, m).channel # channel

\* A Consume that has moved the cursor to 2 over the off-channel token at 1.
C6_Witness ==
  /\ op = "Consume" /\ err = NoErr /\ EOFOnChannel
  /\ index = 2 /\ Len(tokens) = 3
  /\ tokens[1].channel = channel
  /\ tokens[2].channel # channel

\* The on-channel positions of the input from p on.
OnChannelFrom(p) == { j \in From(p) : OnChannelAt(j) }

\* The k-th on-channel token from p on, the end-of-stream token if there are
\* fewer than k.
KthOnChannelFrom(p, k) ==
  IF Cardinality(OnChannelFrom(p)) >= k
  THEN Full[(CHOOSE j \in OnChannelFrom(p) :
               Cardinality({ m \in OnChannelFrom(p) : m <= j }) = k) + 1]
  ELSE Full[Len(Full)]

\* C7: with the end-of-stream token on the stream's channel and the cursor
\* initialised, LT(k), k >= 1, is the k-th on-channel token from the cursor on
\* (the end-of-stream token if there are fewer); LT(1) after Seek(0) is the
\* first on-channel token of the input; LT(0) is no token.
C7_LookAhead ==
  /\ (op = "LT" /\ arg[1] >= 1 /\ index >= 0 /\ EOFOnChannel) =>
       (err = NoErr /\ ret.tok = KthOnChannelFrom(index, arg[1]))
  /\ (op = "LT" /\ arg[1] = 0) => (err = NoErr /\ ret.tok = Nil)
  /\ (op = "Seek" /\ arg[1] = 0 /\ index >= 0 /\ EOFOnChannel) =>
       LT(Self, 1) = Out(Self, Full[FirstOnChannelFrom(0) + 1], NoErr)

\* An LT(2) from cursor 0 that skipped the off-channel token at 1.
C7_Witness ==
  /\ op = "LT" /\ arg = <<2>> /\ err = NoErr /\ EOFOnChannel
  /\ index = 0 /\ Len(tokens) = 3
  /\ tokens[2].channel # channel
  /\ ret.tok = tokens[3]

\* C8: LT(k), k >= 1, never reads the buffer out of range, whatever the
\* stream's channel: when the scan runs out of on-channel tokens it returns the
\* end-of-stream token.
C8_LTInRange ==
  (op = "LT" /\ arg[1] >= 1) =>
    /\ err = NoErr
    /\ (index >= 0 /\ Cardinality(OnChannelFrom(index)) < arg[1]) =>
         ret.tok.type = TokenEOF

\* The on-channel positions of the input before p.
OnChannelBefore(p) == { j \in 0 .. p - 1 : OnChannelAt(j) }

\* The k-th on-channel token before p counted backwards, nil if there are
\* fewer than k.
KthOnChannelBefore(p, k) ==
  IF Cardinality(OnChannelBefore(p)) >= k
  THEN Full[(CHOOSE j \in OnChannelBefore(p) :
               Cardinality({ m \in OnChannelBefore(p) : m >= j }) = k) + 1]
  ELSE Nil

\* C9: LB(k), k >= 1, and LT(-k) return the k-th on-channel token before the
\* cursor, nil exactly when the cursor is -1 or fewer than k precede it; LB
\* neither panics nor changes the stream.
C9_LookBack ==
  /\ (op = "LB" /\ arg[1] >= 1) =>
       (err = NoErr /\ ret.tok = KthOnChannelBefore(index, arg[1]))
  /\ (op = "LT" /\ arg[1] < 0) =>
       (err = NoErr /\ ret.tok = KthOnChannelBefore(index, -arg[1]))
  /\ \A k \in 1 .. MaxArg :
       /\ LB(Self, k).s = Self
       /\ Cardinality(OnChannelBefore(index)) >= k => LB(Self, k).r # Nil

\* An LB(1) from cursor 2 that skipped the off-channel token at 1.
C9_Witness ==
  /\ op = "LB" /\ arg = <<1>> /\ err = NoErr
  /\ index = 2 /\ Len(tokens) = 3
  /\ tokens[2].channel # channel
  /\ ret.tok = tokens[1]

\* The text of the input's tokens from position j to hi, cut before the
\* end-of-stream token.
RECURSIVE TextFrom(_, _)
TextFrom(j, hi) ==
  IF j > hi \/ j > Len(Full) - 1 THEN ""
  ELSE IF Full[j + 1].type = TokenEOF THEN ""
  ELSE Full[j + 1].text \o TextFrom(j + 1, hi)

ExpectedText(start, stop) ==
  IF start < 0 \/ stop < 0 THEN "" ELSE TextFrom(start, stop)

\* C10: GetTextFromInterval(start, stop) is empty if start or stop is negative
\* and otherwise the text of the whole input's tokens at start..stop, cut
\* before the end-of-stream token, however much was buffered before the call.
C10_TextOfInterval ==
  /\ op = "GetTextFromInterval" =>
       (err = NoErr /\ ret.text = ExpectedText(arg[1], arg[2]))
  /\ op = "GetAllText" =>
       (err = NoErr /\ ret.text = ExpectedText(0, Len(Full) - 1))

\* ---- hidden tokens, read off the buffer
\* filterForChannel's test: ch = -1 asks for any token off the default channel.
PassesChannel(t, ch) ==
  IF ch = -1 THEN t.channel # LexerDefaultTokenChannel ELSE t.channel = ch

\* The buffered tokens at positions lo..hi that pass the test, in buffer order.
HiddenBetween(lo, hi, ch) ==
  SelectSeq(SubSeq(tokens, lo + 1, hi + 1), LAMBDA t : PassesChannel(t, ch))

DefaultAt(j) == tokens[j + 1].channel = LexerDefaultTokenChannel

\* The first buffered position >= i that holds a default-channel token, the
\* last buffered index if there is none.
DefaultBoundary(i) ==
  IF \E j \in i .. Len(tokens) - 1 : DefaultAt(j)
  THEN CHOOSE j \in i .. Len(tokens) - 1 :
         DefaultAt(j) /\ \A m \in i .. j - 1 : ~DefaultAt(m)
  ELSE Len(tokens) - 1

\* C11: whatever the stream's channel, getHiddenTokensToRight(tokenIndex, ch)
\* returns exactly the tokens at tokenIndex+1..boundary that pass the channel
\* test, boundary being the first position >= tokenIndex+1 with a
\* default-channel token (the last buffered index if there is none); nothing
\* beyond that token is returned.
C11_HiddenRightBoundedByDefault ==
  (op = "getHiddenTokensToRight" /\ err = NoErr) =>
    /\ ret.list = HiddenBetween(arg[1] + 1, DefaultBoundary(arg[1] + 1), arg[2])
    /\ \A j \in 1 .. Len(ret.list) :
         ret.list[j].tokenIndex <= DefaultBoundary(arg[1] + 1)

\* Positions a < b of the buffer that hold default-channel tokens with only
\* other tokens between them.
DefaultNeighbours(a, b) ==
  /\ a < b /\ DefaultAt(a) /\ DefaultAt(b)
  /\ \A m \in a + 1 .. b - 1 : ~DefaultAt(m)

\* C12: on a default-channel stream, for buffered default-channel tokens at
\* a < b with only other tokens between them, getHiddenTokensToRight(a, -1)
\* and getHiddenTokensToLeft(b, -1) both return the tokens at a+1..b-1 in
\* buffer order; on channels [default, hidden, hidden, default, EOF] both
\* return the tokens at 1 and 2; with b = a+1, getHiddenTokensToLeft(b, ch)
\* returns nothing for every ch.
C12_HiddenBetweenDefaults ==
  /\ channel = LexerDefaultTokenChannel =>
       \A a, b \in 0 .. Len(tokens) - 1 :
         DefaultNeighbours(a, b) =>
           /\ getHiddenTokensToRight(Self, a, -1).err = NoErr
           /\ getHiddenTokensToRight(Self, a, -1).r = SubSeq(tokens, a + 2, b)
           /\ getHiddenTokensToLeft(Self, b, -1).err = NoErr
           /\ getHiddenTokensToLeft(Self, b, -1).r = SubSeq(tokens, a + 2, b)
           /\ b = a + 1 =>
                \A ch \in ChannelArgs :
                  /\ getHiddenTokensToLeft(Self, b, ch).err = NoErr
                  /\ getHiddenTokensToLeft(Self, b, ch).r = <<>>
  /\ (tokenSource.input = HiddenSource.input /\ channel = LexerDefaultTokenChannel) =>
       /\ (op = "getHiddenTokensToRight" /\ arg = <<0, -1>>) =>
            (err = NoErr /\ ret.list = <<Full[2], Full[3]>>)
       /\ (op = "getHiddenTokensToLeft" /\ arg = <<3, -1>> /\ err = NoErr) =>
            ret.list = <<Full[2], Full[3]>>

\* getHiddenTokensToLeft(3, -1) on channels [default, hidden, hidden, default]
\* has returned the two hidden tokens at 1 and 2.
C12_Witness ==
  /\ op = "getHiddenTokensToLeft" /\ arg = <<3, -1>> /\ err = NoErr
  /\ channel = LexerDefaultTokenChannel
  /\ Len(tokens) >= 4
  /\ DefaultNeighbours(0, 3)
  /\ ret.list = <<tokens[2], tokens[3]>>
  /\ getHiddenTokensToRight(Self, 0, -1).r = ret.list

\* Size() once lazyInit has run.
SizeAfterInit == Len(lazyInit(Self).s.tokens)

\* The panic the hidden-token operations owe tokenIndex i.
HiddenErr(i) == IF i < 0 \/ i >= SizeAfterInit THEN ErrNotIn ELSE NoErr

\* C13: getHiddenTokensToRight and getHiddenTokensToLeft panic with the
\* "not in 0..n" error exactly when tokenIndex < 0 or tokenIndex >= Size()
\* after lazy initialisation (the buffered length, not the input's), and
\* return without any panic for every tokenIndex in [0, Size()), index 0 and
\* the end-of-stream token's index included.
C13_HiddenIndexError ==
  /\ \A i \in Indexes, ch \in ChannelArgs :
       /\ getHiddenTokensToRight(Self, i, ch).err = HiddenErr(i)
       /\ getHiddenTokensToLeft(Self, i, ch).err = HiddenErr(i)
  /\ op \in {"getHiddenTokensToRight", "getHiddenTokensToLeft"} =>
       /\ err \in {NoErr, ErrNotIn}
       /\ err = ErrNotIn => (arg[1] < 0 \/ arg[1] >= Len(tokens))
       /\ err = NoErr => (0 <= arg[1] /\ arg[1] < Len(tokens))

\* getHiddenTokensToLeft(1, ch) refused on a buffer of one token although the
\* input has a token at 1, while the end-of-stream token's index is accepted
\* once it is buffered.
C13_Witness ==
  /\ op = "getHiddenTokensToLeft" /\ arg[1] = 1 /\ err = ErrNotIn
  /\ Len(tokens) = 1 /\ Len(Full) = 3
  /\ getHiddenTokensToRight(Fill(Self).s, 2, -1).err = NoErr
  /\ getHiddenTokensToLeft(Self, 0, -1).err = NoErr

\* C14: Seek(index) and Get(index) never fault, whatever the index (negative,
\* beyond the buffered length, beyond the end of the input) and whatever the
\* state: they clamp or return no token.
C14_SeekGetNeverFault ==
  op \in {"Seek", "Get"} => err = NoErr

\* A freshly constructed stream over the bound source, on the same channel.
Fresh == NewCommonTokenStream(tokenSource, channel)

\* C15: after SetTokenSource(s), in whatever state it was called, the buffer
\* is empty and the cursor -1, and the first access (Seek, LT, Get, Consume,
\* Fill) behaves as on a freshly constructed stream over s: it fetches at
\* least one token of s and puts the cursor on the first on-channel token.
C15_RebindRestarts ==
  op = "SetTokenSource" =>
    /\ tokens = <<>> /\ index = -1
    /\ Seek(Self, 0) = Seek(Fresh, 0)
    /\ LT(Self, 1) = LT(Fresh, 1)
    /\ Get(Self, 0) = Get(Fresh, 0)
    /\ Consume(Self) = Consume(Fresh)
    /\ Fill(Self) = Fill(Fresh)
    /\ Len(Seek(Self, 0).s.tokens) >= 1
    /\ Seek(Self, 0).s.index = FirstOnChannelFrom(0)

\* C16: Fill returns, and when it does the buffer is the bound source's whole
\* token sequence up to and including its first end-of-stream token, with
\* fetchedEOF set, whatever the input's length.
C16_FillComplete ==
  op = "Fill" => (err = NoErr /\ tokens = Full /\ fetchedEOF)

\* C17: once the end-of-stream token is buffered (fetchedEOF), every fetch(n)
\* returns 0 and leaves buffer and source untouched, no operation other than
\* SetTokenSource changes the buffer or reads the source, and a second Fill
\* leaves the stream as the first one left it.
C17_FrozenAfterEOF ==
  /\ [](fetchedEOF => \A n \in 0 .. MaxArg : fetch(Self, n) = Out(Self, 0, NoErr))
  /\ [](Fill(Self).err = NoErr => Fill(Fill(Self).s) = Out(Fill(Self).s, TRUE, NoErr))
  /\ [][(fetchedEOF /\ op' # "SetTokenSource") =>
          /\ tokens' = tokens
          /\ tokenSource' = tokenSource
          /\ fetchedEOF'
          /\ op' = "fetch" => ret'.n = 0]_vars

\* A Fill has returned with the end-of-stream token buffered at 2: another
\* Fill changes nothing and fetch(2) has nothing to add.
C17_Witness ==
  /\ op = "Fill" /\ err = NoErr /\ fetchedEOF
  /\ Len(tokens) = 3 /\ tokens[3].type = TokenEOF
  /\ tokenSource.pos = 3
  /\ Fill(Self).s = Self
  /\ fetch(Self, 2).r = 0

\* The last position of start..stop before any buffered end-of-stream token.
LastBeforeEOF(start, stop) ==
  IF \E j \in start .. stop : tokens[j + 1].type = TokenEOF
  THEN (CHOOSE j \in start .. stop :
          /\ tokens[j + 1].type = TokenEOF
          /\ \A m \in start .. j - 1 : tokens[m + 1].type # TokenEOF) - 1
  ELSE stop

\* The buffered tokens at start..stop, cut before an end-of-stream token and
\* kept if ty = 0 (no type set) or their type is ty.
ExpectedTokens(start, stop, ty) ==
  SelectSeq(SubSeq(tokens, start + 1, LastBeforeEOF(start, stop) + 1),
            LAMBDA t : ty = 0 \/ t.type = ty)

\* C18: for 0 <= start <= stop < Size(), GetTokens(start, stop, types) returns
\* the buffered tokens at start..stop in order, the one at stop included, cut
\* only before an end-of-stream token; with a type set, those of them whose
\* type is in the set.
C18_GetTokensInclusive ==
  (op = "GetTokens" /\ 0 <= arg[1] /\ arg[1] <= arg[2] /\ arg[2] < Len(tokens)) =>
    (err = NoErr /\ ret.list = ExpectedTokens(arg[1], arg[2], arg[3]))

Max(a, b) == IF a >= b THEN a ELSE b

\* C19: for every i >= 0, Sync(i) returns true exactly if the buffer holds a
\* token at i when it returns, false exactly if i lies beyond the index of the
\* source's end-of-stream token; it reads at most the shortfall i - Size() + 1
\* from the source, so Size() <= max(previous Size(), i + 1) afterwards; it
\* never moves the cursor and changes nothing when i < Size() already.
C19_SyncContract ==
  \A i \in 0 .. MaxArg :
    LET sy == Sync(Self, i)
    IN  /\ sy.err = NoErr
        /\ sy.r <=> InRange(sy.s, i)
        /\ ~sy.r <=> i > Len(Full) - 1
        /\ sy.s.tokenSource.pos - tokenSource.pos <= Max(0, Shortfall(Self, i))
        /\ Len(sy.s.tokens) <= Max(Len(tokens), i + 1)
        /\ sy.s.index = index
        /\ i < Len(tokens) => sy.s = Self

\* The input's on-channel tokens in input order, end-of-stream token included.
OnChannelSeq == SelectSeq(Full, LAMBDA t : t.channel = channel)

\* The tokens the loop "observe LT(1), then Consume()" sees from stream s on,
\* up to the first call that panics.
RECURSIVE Observed(_)
Observed(s) ==
  IF LT(s, 1).err # NoErr THEN <<>>
  ELSE IF Consume(LT(s, 1).s).err # NoErr THEN <<LT(s, 1).r>>
  ELSE <<LT(s, 1).r>> \o Observed(Consume(LT(s, 1).s).s)

\* What is left of the loop: twice the distance of the cursor from the end of
\* the input, plus one while the next call is LT.
Rank == 2 * (Len(Full) - index) + (IF op = "LT" THEN 0 ELSE 1)

\* C20: on a fresh stream whose end-of-stream token is on the stream's channel,
\* the loop "observe LT(1), then Consume()" terminates (every step but the
\* refused Consume lowers Rank, which stays positive, and the loop stops at no
\* other panic than Consume's "cannot consume EOF"); the tokens observed are
\* the input's on-channel tokens in input order, each once, the end-of-stream
\* token last; every successful Consume moves the cursor forward; the refused
\* Consume leaves buffer, cursor and fetchedEOF as they were.
C20_DrainLoop ==
  /\ []((op = "New" /\ EOFOnChannel) => Observed(Self) = OnChannelSeq)
  /\ []((op = "LT" /\ EOFOnChannel) =>
          /\ err = NoErr
          /\ ret.tok = OnChannelSeq[Cardinality(OnChannelBefore(index)) + 1])
  /\ []((op = "Consume" /\ EOFOnChannel) => err \in {NoErr, ErrConsumeEOF})
  /\ [](EOFOnChannel => Rank > 0)
  /\ [][EOFOnChannel =>
          /\ index' >= index
          /\ (op' = "Consume" /\ err' = NoErr) => index' > index
          /\ (op' = "Consume" /\ err' = ErrConsumeEOF) =>
               (tokens' = tokens /\ index' = index /\ fetchedEOF' = fetchedEOF)
          /\ (op' = "Consume" /\ err' = ErrConsumeEOF) \/ Rank' < Rank]_vars

\* The loop has ended on an input of an on-channel token, an off-channel token
\* and the end-of-stream token: the refused Consume found the cursor at 2.
C20_Witness ==
  /\ op = "Consume" /\ err = ErrConsumeEOF /\ EOFOnChannel
  /\ index = 2 /\ Len(tokens) = 3
  /\ tokens[1].channel = channel
  /\ tokens[2].channel # channel
  /\ Observed(NewCommonTokenStream([tokenSource EXCEPT !.pos = 0], channel))
       = <<tokens[1], tokens[3]>>
====
